---- MODULE Spec2Model ----
(***************************************************************************)
(* A model of the ERDDAP downloader.                                       *)
(*                                                                         *)
(*   Spec        one run of downloader.py's main(): argument checks, the   *)
(*               loop over the endpoints, the catalog fetch, the per       *)
(*               dataset dispatch (formats / listed files), the iso19115   *)
(*               sidecar and the error report.                             *)
(*   CrawlSpec   one run of download_files.py's main(): the recursive      *)
(*               crawl of the /files/ tree.                                *)
(*   CatalogSpec get_dataset_ids as a function of the catalog text and of  *)
(*               the --datasetIDs argument.                                *)
(*                                                                         *)
(* requests.get is an input of the step that calls it: the response is     *)
(* drawn from Responses when the call is made.                             *)
(*                                                                         *)
(* A run of downloader.py's main() starts here at line 71, from a parsed   *)
(* namespace: the construction of the parser (lines 18-61) is not part of  *)
(* the model.                                                              *)
(***************************************************************************)
EXTENDS Integers, Sequences, FiniteSets

VARIABLES
    args,            \* the parsed command line of downloader.py
    pc,              \* position of main() of downloader.py
    urlIdx,          \* index of erddap_url in erddap_urls
    dataset_ids,     \* the list get_dataset_ids returned for the endpoint
    dsIdx,           \* index of the dataset in dataset_ids
    fmtIdx,          \* index of fmt in formats (download_dataset_files)
    missed_formats,  \* local list of download_dataset_files
    file_names,      \* local list of download_files (downloader.py)
    fileIdx,         \* index of file_name in file_names
    missed_files,    \* local list of download_files (downloader.py)
    did_download,    \* local flag of main()
    error_report,    \* main()'s list of missed downloads
    dirs,            \* local directories that exist
    files,           \* local files: path -> body
    reportFile,      \* the rows of the report file, or NoFile
    log,             \* every requests.get made, with its response
    faults,          \* number of failed responses so far
    rowsServed,      \* number of catalog rows received so far
    uncaught,        \* the exception that ended main(), if one did
    crawl,           \* state of the crawl of download_files.py
    cat              \* state of the catalog resolver on its own

mainVars == <<args, pc, urlIdx, dataset_ids, dsIdx, fmtIdx, missed_formats,
              file_names, fileIdx, missed_files, did_download, error_report,
              dirs, files, reportFile, log, faults, rowsServed, uncaught>>
vars == <<mainVars, crawl, cat>>

(***************************************************************************)
(* Bounds of the model.                                                    *)
(***************************************************************************)
\* catalog rows the servers send in one run, over all endpoints
MaxRows == 2
\* responses that fail in one run
MaxFaults == 2

Range(s) == {s[i] : i \in DOMAIN s}

SeqsUpTo(S, n) == UNION {[1..k -> S] : k \in 0..n}

(***************************************************************************)
(* HTTP: what requests.get can give, and what the caller sees.             *)
(***************************************************************************)
NoException == [cls |-> "none", status |-> 0]

Responses ==
    { [exc |-> "none", status |-> 200],
      [exc |-> "none", status |-> 400],
      [exc |-> "ConnectionError", status |-> 0],
      [exc |-> "IncompleteRead", status |-> 0] }

\* requests.get(url) followed by response.raise_for_status()
Raised(resp) ==
    IF resp.exc # "none" THEN [cls |-> resp.exc, status |-> 0]
    ELSE IF resp.status >= 400 /\ resp.status < 600
         THEN [cls |-> "HTTPError", status |-> resp.status]
         ELSE NoException

\* open() of a path whose directory does not exist
FileNotFoundError == [cls |-> "FileNotFoundError", status |-> 0]

Succeeds(resp) == Raised(resp) = NoException

\* the subclasses of requests.exceptions.RequestException that occur here
RequestException == {"HTTPError", "ConnectionError"}

\* a handler that names HTTPError alone
CaughtHttpOnly(e) == e.cls = "HTTPError"

\* except (RequestException, IncompleteRead) as e
Caught(e) == e.cls \in RequestException \cup {"IncompleteRead"}


(***************************************************************************)
(* The parsed command line (downloader.py, main, lines 18-73).             *)
(***************************************************************************)
\* an ERDDAP URL, as urlparse splits it
AllUrls ==
    << [host |-> "h1", path |-> "/erddap"],
       [host |-> "h2", path |-> "/erddap"] >>

\* urlparse(erddap_url).netloc
Netloc(url) == url.host

DatasetIdArgs == { <<>>, <<"A">> }

FormatLists == { <<"ncCF">>, <<"ncCF", "nc">> }

\* -t, -g, -h
FlagChoices ==
    { [table_datasets |-> FALSE, grid_datasets_1 |-> FALSE, grid_datasets_2 |-> FALSE],
      [table_datasets |-> TRUE, grid_datasets_1 |-> FALSE, grid_datasets_2 |-> FALSE],
      [table_datasets |-> TRUE, grid_datasets_1 |-> TRUE, grid_datasets_2 |-> TRUE] }

ArgSets ==
    { [ erddap_urls |-> u, formats |-> f, datasetIDs |-> d, skip_existing |-> s,
        table_datasets |-> g.table_datasets,
        grid_datasets_1 |-> g.grid_datasets_1,
        grid_datasets_2 |-> g.grid_datasets_2 ] :
      u \in {SubSeq(AllUrls, 1, 1), SubSeq(AllUrls, 1, 2)},
      f \in FormatLists, d \in DatasetIdArgs, s \in BOOLEAN, g \in FlagChoices }

(***************************************************************************)
(* The catalog (downloader.py, get_dataset_ids, lines 236-278).            *)
(***************************************************************************)
StdHeader == <<"datasetID", "dataStructure", "files", "iso19115">>

\* header.index(name): the first column of that name
Index(header, name) ==
    CHOOSE i \in DOMAIN header :
        header[i] = name /\ \A j \in 1..(i - 1) : header[j] # name

RECURSIVE FilterRows(_, _, _, _)
\* the loop "for row in csv_reader" from row k on, dataset_ids being acc
FilterRows(csv, specified_datasets, k, acc) ==
    IF k > Len(csv.rows) THEN acc
    ELSE LET row == csv.rows[k]
             dataset_id == row[Index(csv.header, "datasetID")]
             data_structure == row[Index(csv.header, "dataStructure")]
             file_url == row[Index(csv.header, "files")]
             iso19115_url == row[Index(csv.header, "iso19115")]
             keep == /\ dataset_id # "allDatasets"
                     /\ data_structure # ""
                     /\ \/ specified_datasets = <<>>
                        \/ dataset_id \in Range(specified_datasets)
         IN  FilterRows(csv, specified_datasets, k + 1,
                 IF keep
                 THEN Append(acc, <<dataset_id, data_structure, file_url, iso19115_url>>)
                 ELSE acc)

RECURSIVE ByIdOrder(_, _, _)
ByIdOrder(csv, ids, j) ==
    IF j > Len(ids) THEN <<>>
    ELSE FilterRows(csv, <<ids[j]>>, 1, <<>>) \o ByIdOrder(csv, ids, j + 1)

\* the rows in the order of the id list
get_dataset_ids_in_id_order(csv, specified_dataset_ids) ==
    IF specified_dataset_ids = <<>>
    THEN FilterRows(csv, specified_dataset_ids, 1, <<>>)
    ELSE ByIdOrder(csv, specified_dataset_ids, 1)

\* specified_dataset_ids is the --datasetIDs argument split at the commas,
\* <<>> when the argument is absent or empty
get_dataset_ids(csv, specified_dataset_ids) ==
    FilterRows(csv, specified_dataset_ids, 1, <<>>)

\* the rows a server answers with in a run of main()
MainRows ==
    { <<"allDatasets", "table", "", "">>,
      <<"A", "table", "", "I">>,
      <<"B", "grid", "F", "I">>,
      <<"C", "grid", "", "">> }

MainCatalogs(n) == [header : {StdHeader}, rows : SeqsUpTo(MainRows, n)]

\* the file names a listing page shows (rows with a [BIN] icon)
Listings == { <<>>, <<"f1">>, <<"f1", "f2">> }

(***************************************************************************)
(* The local file system.                                                  *)
(***************************************************************************)
\* os.makedirs(d, exist_ok=True): d and every directory above it
makedirs(ds, d) == ds \cup {SubSeq(d, 1, k) : k \in 0..Len(d)}

\* os.path.join(args.downloads_folder, netloc, dataset_id)
DownloadDir(url, dataset_id) == <<Netloc(url), dataset_id>>

\* os.path.join(download_dir, name); a name is a tuple of its parts
FilePath(download_dir, name) == [dir |-> download_dir, name |-> name]

\* f"{dataset_id}.{fmt}"
FormatFile(dataset_id, fmt) == <<dataset_id, ".", fmt>>

\* os.path.exists(file_path)
Exists(fs, path) == path \in DOMAIN fs

\* open(file_path, "wb").write(response.content)
WriteFile(fs, path, body) ==
    [p \in DOMAIN fs \cup {path} |-> IF p = path THEN body ELSE fs[p]]

\* the check made in the endpoint's directory instead of the dataset's
all_formats_exist_in_parent(fs, download_dir, dataset_id, formats) ==
    \A i \in DOMAIN formats :
        Exists(fs, FilePath(SubSeq(download_dir, 1, 1), FormatFile(dataset_id, formats[i])))

all_formats_exist(fs, download_dir, dataset_id, formats) ==
    \A i \in DOMAIN formats :
        Exists(fs, FilePath(download_dir, FormatFile(dataset_id, formats[i])))


(***************************************************************************)
(* The state before a run of main().                                       *)
(***************************************************************************)
\* bodies: what an earlier run left, and what the server sends now
Stale == "stale"
Fresh == "fresh"

\* files an earlier run left for dataset A of the first endpoint
EarlierFiles(fmts) ==
    [p \in {FilePath(DownloadDir(AllUrls[1], "A"), FormatFile("A", f)) : f \in fmts}
        |-> Stale]

HeaderRow == [kind |-> "header",
              cols |-> <<"time", "erddap_url", "datasetID", "missed", "error">>]

ReportRow(time, entry) ==
    [kind |-> "row", time |-> time, erddap_url |-> entry[1],
     datasetID |-> entry[2], missed |-> entry[3], error |-> entry[4]]

NoFile == [exists |-> FALSE, rows |-> <<>>]

\* a report file written in the same second by an earlier run
EarlierReport ==
    [exists |-> TRUE,
     rows |-> <<HeaderRow,
                ReportRow("t0", <<AllUrls[1], "A", "nc",
                                  [cls |-> "HTTPError", status |-> 400]>>)>>]

\* what an earlier run may have left in the downloads folder
EarlierStates ==
    { [files |-> EarlierFiles({}), dirs |-> {}, reportFile |-> NoFile],
      [files |-> EarlierFiles({"ncCF"}),
       dirs |-> makedirs({}, DownloadDir(AllUrls[1], "A")),
       reportFile |-> EarlierReport] }

LogEntry(op, url, ds, target, resp) ==
    [op |-> op, url |-> url, ds |-> ds, target |-> target, resp |-> resp]

MainInit ==
    /\ args \in ArgSets
    /\ pc = "start"
    /\ urlIdx = 1
    /\ dataset_ids = <<>>
    /\ dsIdx = 1
    /\ fmtIdx = 1
    /\ missed_formats = <<>>
    /\ file_names = <<>>
    /\ fileIdx = 1
    /\ missed_files = <<>>
    /\ did_download = FALSE
    /\ error_report = <<>>
    /\ \E e \in EarlierStates :
         /\ files = e.files
         /\ dirs = e.dirs
         /\ reportFile = e.reportFile
    /\ log = <<>>
    /\ faults = 0
    /\ rowsServed = 0
    /\ uncaught = NoException

\* the responses requests.get may still give: failures are bounded
Answers == IF faults < MaxFaults THEN Responses ELSE {r \in Responses : Succeeds(r)}

Fault(resp) == IF Succeeds(resp) THEN 0 ELSE 1

erddap_url == args.erddap_urls[urlIdx]
dataset == dataset_ids[dsIdx]
dataset_id == dataset[1]
data_structure == dataset[2]
file_url == dataset[3]
iso19115_url == dataset[4]
download_dir == DownloadDir(erddap_url, dataset_id)

(***************************************************************************)
(* main(), lines 71-85: the argument checks.                               *)
(***************************************************************************)
\* the test off by one
IdsWithMoreThanTwoUrls(a) == a.datasetIDs # <<>> /\ Len(a.erddap_urls) > 2

\* line 75
IdsWithSeveralUrls(a) == a.datasetIDs # <<>> /\ Len(a.erddap_urls) > 1

\* line 79
NoDatasetKind(a) ==
    ~a.table_datasets /\ ~a.grid_datasets_1 /\ ~a.grid_datasets_2

Start ==
    /\ pc = "start"
    /\ pc' = IF IdsWithSeveralUrls(args) THEN "rejected"
             ELSE IF NoDatasetKind(args) THEN "rejected"
             ELSE "endpoint"
    /\ UNCHANGED <<crawl, cat, uncaught, args, urlIdx, dataset_ids, dsIdx, fmtIdx, missed_formats,
                   file_names, fileIdx, missed_files, did_download,
                   error_report, dirs, files, reportFile, log, faults, rowsServed>>

(***************************************************************************)
(* main(), lines 87-91: the head of the loop over the endpoints and the    *)
(* catalog fetch.  An exception of get_dataset_ids is caught nowhere.      *)
(***************************************************************************)
FetchCatalog ==
    /\ pc = "endpoint"
    /\ urlIdx <= Len(args.erddap_urls)
    /\ \E resp \in Answers, csv \in MainCatalogs(MaxRows - rowsServed) :
         /\ log' = Append(log, LogEntry("catalog", erddap_url, "", "", resp))
         /\ faults' = faults + Fault(resp)
         /\ IF Succeeds(resp)
            THEN /\ dataset_ids' = get_dataset_ids(csv, args.datasetIDs)
                 /\ rowsServed' = rowsServed + Len(csv.rows)
                 /\ dsIdx' = 1
                 /\ pc' = "dataset"
                 /\ UNCHANGED uncaught
            ELSE /\ csv = [header |-> StdHeader, rows |-> <<>>]
                 /\ pc' = "crashed"
                 /\ uncaught' = Raised(resp)
                 /\ UNCHANGED <<dataset_ids, dsIdx, rowsServed>>
    /\ UNCHANGED <<crawl, cat, args, urlIdx, fmtIdx, missed_formats, file_names, fileIdx,
                   missed_files, did_download, error_report, dirs, files,
                   reportFile>>

EndpointsDone ==
    /\ pc = "endpoint"
    /\ urlIdx > Len(args.erddap_urls)
    /\ pc' = "report"
    /\ UNCHANGED <<crawl, cat, uncaught, args, urlIdx, dataset_ids, dsIdx, fmtIdx, missed_formats,
                   file_names, fileIdx, missed_files, did_download,
                   error_report, dirs, files, reportFile, log, faults, rowsServed>>


(***************************************************************************)
(* main(), lines 93-127: one dataset of the endpoint, up to the dispatch.  *)
(***************************************************************************)
\* line 107
is_table == data_structure = "table"
\* line 108
has_files == file_url # ""

\* lines 110-127: where main() goes for the dataset
Dispatch ==
    IF is_table /\ args.table_datasets THEN "formats"
    ELSE IF ~is_table /\ has_files /\ args.grid_datasets_1 THEN "listing"
    ELSE IF ~is_table /\ ~has_files /\ args.grid_datasets_2 THEN "unimplemented"
    ELSE "none"

\* lines 99-101
SkipDataset ==
    /\ args.skip_existing
    /\ all_formats_exist(files, download_dir, dataset_id, args.formats)

BeginDataset ==
    /\ pc = "dataset"
    /\ dsIdx <= Len(dataset_ids)
    /\ dirs' = makedirs(dirs, download_dir)
    /\ IF SkipDataset
       THEN /\ dsIdx' = dsIdx + 1
            /\ pc' = "dataset"
            /\ UNCHANGED <<did_download, fmtIdx, missed_formats, missed_files>>
       ELSE /\ did_download' = (Dispatch # "none")
            /\ pc' = CASE Dispatch = "formats" -> "formats"
                       [] Dispatch = "listing" -> "listing"
                       [] OTHER -> "sidecar"
            /\ fmtIdx' = 1
            /\ missed_formats' = <<>>
            /\ missed_files' = <<>>
            /\ UNCHANGED dsIdx
    /\ UNCHANGED <<crawl, cat, uncaught, args, urlIdx, dataset_ids, file_names, fileIdx,
                   error_report, files, reportFile, log, faults, rowsServed>>

\* the loop over dataset_ids is over: the next endpoint
DatasetsDone ==
    /\ pc = "dataset"
    /\ dsIdx > Len(dataset_ids)
    /\ urlIdx' = urlIdx + 1
    /\ pc' = "endpoint"
    /\ UNCHANGED <<crawl, cat, uncaught, args, dataset_ids, dsIdx, fmtIdx, missed_formats,
                   file_names, fileIdx, missed_files, did_download,
                   error_report, dirs, files, reportFile, log, faults, rowsServed>>

(***************************************************************************)
(* download_dataset_files, lines 322-337.                                  *)
(***************************************************************************)
fmt == args.formats[fmtIdx]

\* line 324
FormatPath(dir, id, f) == FilePath(dir, FormatFile(id, f))

\* line 325
SkipFormat(fs, path) == args.skip_existing /\ Exists(fs, path)

\* the entry naming the narrow format in place of the composite one
MissedFormatNarrow(url, id, f, e) == <<url, id, IF f = "ncCF" THEN "nc" ELSE f, e>>

\* line 336: the entry of a format that was missed
MissedFormat(url, id, f, e) == <<url, id, f, e>>

\* one pass of "for fmt in formats"
FormatStep ==
    /\ pc = "formats"
    /\ fmtIdx <= Len(args.formats)
    /\ LET file_path == FormatPath(download_dir, dataset_id, fmt)
       IN IF SkipFormat(files, file_path)
          THEN /\ fmtIdx' = fmtIdx + 1
               /\ UNCHANGED <<pc, files, missed_formats, log, faults, uncaught>>
          ELSE \E resp \in Answers :
                 /\ log' = Append(log, LogEntry("format", erddap_url, dataset_id, fmt, resp))
                 /\ faults' = faults + Fault(resp)
                 /\ IF Succeeds(resp)
                    THEN /\ files' = WriteFile(files, file_path, Fresh)
                         /\ fmtIdx' = fmtIdx + 1
                         /\ UNCHANGED <<pc, missed_formats, uncaught>>
                    ELSE IF Caught(Raised(resp))
                    THEN /\ missed_formats' = Append(missed_formats,
                                MissedFormat(erddap_url, dataset_id, fmt, Raised(resp)))
                         /\ fmtIdx' = fmtIdx + 1
                         /\ UNCHANGED <<pc, files, uncaught>>
                    ELSE /\ pc' = "crashed"
                         /\ uncaught' = Raised(resp)
                         /\ UNCHANGED <<files, missed_formats, fmtIdx>>
    /\ UNCHANGED <<crawl, cat, args, urlIdx, dataset_ids, dsIdx, file_names, fileIdx,
                   missed_files, did_download, error_report, dirs, reportFile, rowsServed>>

\* line 337 and main()'s lines 112-121: error_report.extend(missed_formats)
FormatsDone ==
    /\ pc = "formats"
    /\ fmtIdx > Len(args.formats)
    /\ error_report' = error_report \o missed_formats
    /\ pc' = "sidecar"
    /\ UNCHANGED <<crawl, cat, uncaught, args, urlIdx, dataset_ids, dsIdx, fmtIdx, missed_formats,
                   file_names, fileIdx, missed_files, did_download,
                   dirs, files, reportFile, log, faults, rowsServed>>

(***************************************************************************)
(* download_files of downloader.py, lines 150-168.                         *)
(***************************************************************************)
\* lines 151-156: extract_file_names_from_url(file_url)
FetchListing ==
    /\ pc = "listing"
    /\ \E resp \in Answers, names \in Listings :
         /\ log' = Append(log, LogEntry("listing", erddap_url, dataset_id, "all", resp))
         /\ faults' = faults + Fault(resp)
         /\ IF Succeeds(resp)
            THEN /\ file_names' = names
                 /\ fileIdx' = 1
                 /\ pc' = "files"
                 /\ UNCHANGED <<error_report, uncaught>>
            ELSE /\ names = <<>>
                 /\ IF Caught(Raised(resp))
                    THEN /\ error_report' = error_report \o
                               <<<<erddap_url, dataset_id, "all", Raised(resp)>>>>
                         /\ pc' = "sidecar"
                         /\ UNCHANGED uncaught
                    ELSE /\ pc' = "crashed"
                         /\ uncaught' = Raised(resp)
                         /\ UNCHANGED error_report
                 /\ UNCHANGED <<file_names, fileIdx>>
    /\ UNCHANGED <<crawl, cat, args, urlIdx, dataset_ids, dsIdx, fmtIdx, missed_formats,
                   missed_files, did_download, dirs, files, reportFile, rowsServed>>

\* lines 158-167: one pass of "for file_name in file_names"
FileStep ==
    /\ pc = "files"
    /\ fileIdx <= Len(file_names)
    /\ LET file_name == file_names[fileIdx]
           file_path == FilePath(download_dir, <<file_name>>)
       IN \E resp \in Answers :
            /\ log' = Append(log, LogEntry("file", erddap_url, dataset_id, file_name, resp))
            /\ faults' = faults + Fault(resp)
            /\ IF Succeeds(resp)
               THEN /\ files' = WriteFile(files, file_path, Fresh)
                    /\ fileIdx' = fileIdx + 1
                    /\ UNCHANGED <<pc, missed_files, uncaught>>
               ELSE IF Caught(Raised(resp))
               THEN /\ missed_files' = Append(missed_files,
                           <<erddap_url, dataset_id, file_name, Raised(resp)>>)
                    /\ fileIdx' = fileIdx + 1
                    /\ UNCHANGED <<pc, files, uncaught>>
               ELSE /\ pc' = "crashed"
                    /\ uncaught' = Raised(resp)
                    /\ UNCHANGED <<files, missed_files, fileIdx>>
    /\ UNCHANGED <<crawl, cat, args, urlIdx, dataset_ids, dsIdx, fmtIdx, missed_formats,
                   file_names, did_download, error_report, dirs, reportFile, rowsServed>>

\* line 168 and main()'s line 124: error_report.extend(missed_files)
FilesDone ==
    /\ pc = "files"
    /\ fileIdx > Len(file_names)
    /\ error_report' = error_report \o missed_files
    /\ pc' = "sidecar"
    /\ UNCHANGED <<crawl, cat, uncaught, args, urlIdx, dataset_ids, dsIdx, fmtIdx, missed_formats,
                   file_names, fileIdx, missed_files, did_download,
                   dirs, files, reportFile, log, faults, rowsServed>>

(***************************************************************************)
(* main(), lines 129-132: the ISO 19115 sidecar.  download() is called     *)
(* outside any try: an exception ends main().                              *)
(***************************************************************************)
WantsSidecar == did_download /\ iso19115_url # ""

Sidecar ==
    /\ pc = "sidecar"
    /\ WantsSidecar
    /\ LET iso19115_file_path == FilePath(download_dir, FormatFile(dataset_id, "iso19115"))
       IN \E resp \in Answers :
            /\ log' = Append(log, LogEntry("sidecar", erddap_url, dataset_id, "iso19115", resp))
            /\ faults' = faults + Fault(resp)
            /\ IF Succeeds(resp)
               THEN /\ files' = WriteFile(files, iso19115_file_path, Fresh)
                    /\ dsIdx' = dsIdx + 1
                    /\ pc' = "dataset"
                    /\ UNCHANGED uncaught
               ELSE /\ pc' = "crashed"
                    /\ uncaught' = Raised(resp)
                    /\ UNCHANGED <<files, dsIdx>>
    /\ UNCHANGED <<crawl, cat, args, urlIdx, dataset_ids, fmtIdx, missed_formats,
                   file_names, fileIdx, missed_files, did_download,
                   error_report, dirs, reportFile, rowsServed>>

NoSidecar ==
    /\ pc = "sidecar"
    /\ ~WantsSidecar
    /\ dsIdx' = dsIdx + 1
    /\ pc' = "dataset"
    /\ UNCHANGED <<crawl, cat, uncaught, args, urlIdx, dataset_ids, fmtIdx, missed_formats,
                   file_names, fileIdx, missed_files, did_download,
                   error_report, dirs, files, reportFile, log, faults, rowsServed>>

(***************************************************************************)
(* do_error_report, lines 384-398.  The file is opened in the downloads    *)
(* folder, which exists only if something created it.                      *)
(***************************************************************************)
start_time == "t1"

\* the header written on every call
do_error_report_always_header(rf, missed, time) ==
    [exists |-> TRUE,
     rows |-> rf.rows \o <<HeaderRow>>
              \o [i \in 1..Len(missed) |-> ReportRow(time, missed[i])]]

\* lines 389-398: the file after the call
do_error_report(rf, missed, time) ==
    [exists |-> TRUE,
     rows |-> (IF rf.exists THEN rf.rows ELSE <<HeaderRow>>)
              \o [i \in 1..Len(missed) |-> ReportRow(time, missed[i])]]

Report ==
    /\ pc = "report"
    /\ IF <<>> \in dirs
       THEN /\ reportFile' = do_error_report(reportFile, error_report, start_time)
            /\ pc' = "done"
            /\ UNCHANGED uncaught
       ELSE /\ pc' = "crashed"
            /\ uncaught' = FileNotFoundError
            /\ UNCHANGED reportFile
    /\ UNCHANGED <<crawl, cat, args, urlIdx, dataset_ids, dsIdx, fmtIdx, missed_formats,
                   file_names, fileIdx, missed_files, did_download,
                   error_report, dirs, files, log, faults, rowsServed>>

MainNext ==
    \/ Start
    \/ FetchCatalog
    \/ EndpointsDone
    \/ BeginDataset
    \/ DatasetsDone
    \/ FormatStep
    \/ FormatsDone
    \/ FetchListing
    \/ FileStep
    \/ FilesDone
    \/ Sidecar
    \/ NoSidecar
    \/ Report

CrawlIdle == crawl = "idle"
CatIdle == cat = "idle"

Init == MainInit /\ CrawlIdle /\ CatIdle

Next == MainNext

Spec == Init /\ [][Next]_vars


(***************************************************************************)
(* get_dataset_ids on its own: the catalog text and the --datasetIDs       *)
(* argument are drawn from bounded sets, and one step applies it.          *)
(***************************************************************************)
\* rows of the catalog text
MaxCatRows == 3

\* a catalog row by column name
CatRows ==
    [ datasetID : {"A", "B", "allDatasets"},
      dataStructure : {"table", ""},
      files : {"F"},
      iso19115 : {"I"} ]

\* the columns as the server orders them
CatHeaders ==
    { StdHeader, <<"iso19115", "dataStructure", "datasetID", "files">> }

\* the line of the CSV text for a row
CsvLine(header, row) == [i \in DOMAIN header |-> row[header[i]]]

CatIdArgs == { <<>>, <<"A">>, <<"B", "A">>, <<"C">> }

MainIdle ==
    /\ args = <<>>
    /\ pc = "idle"
    /\ urlIdx = 1
    /\ dataset_ids = <<>>
    /\ dsIdx = 1
    /\ fmtIdx = 1
    /\ missed_formats = <<>>
    /\ file_names = <<>>
    /\ fileIdx = 1
    /\ missed_files = <<>>
    /\ did_download = FALSE
    /\ error_report = <<>>
    /\ dirs = {}
    /\ files = <<>>
    /\ reportFile = NoFile
    /\ log = <<>>
    /\ faults = 0
    /\ rowsServed = 0
    /\ uncaught = NoException

CatInit ==
    /\ MainIdle
    /\ CrawlIdle
    /\ \E header \in CatHeaders, rows \in SeqsUpTo(CatRows, MaxCatRows),
          ids \in CatIdArgs :
         cat = [pc |-> "call",
                catalog |-> rows,
                csv |-> [header |-> header,
                         rows |-> [k \in DOMAIN rows |-> CsvLine(header, rows[k])]],
                specified_dataset_ids |-> ids,
                result |-> <<>>]

CatResolve ==
    /\ cat.pc = "call"
    /\ cat' = [cat EXCEPT !.pc = "returned",
                          !.result = get_dataset_ids(cat.csv, cat.specified_dataset_ids)]
    /\ UNCHANGED <<mainVars, crawl>>

CatNext == CatResolve

CatalogSpec == CatInit /\ [][CatNext]_vars

(***************************************************************************)
(* download_files.py: the crawl of the /files/ tree of each endpoint.      *)
(* The recursion of download_files is a stack of frames.  No request of    *)
(* this script is inside a try: an exception ends main().                  *)
(***************************************************************************)
\* depth of the served tree: listings at this depth show no folder
MaxDepth == 2

\* table rows of a listing page (ERDDAP's directory index)
FileRow(name) ==
    [tds |-> 4, img |-> TRUE, a |-> TRUE, rel |-> {"bookmark"}, text |-> name, href |-> name]
FolderRow(name) ==
    [tds |-> 4, img |-> TRUE, a |-> TRUE, rel |-> {}, text |-> name, href |-> name]
ParentRow ==
    [tds |-> 4, img |-> TRUE, a |-> TRUE, rel |-> {}, text |-> "Parent Directory", href |-> ".."]
TitleRow ==
    [tds |-> 0, img |-> FALSE, a |-> FALSE, rel |-> {}, text |-> "Name", href |-> ""]
RuleRow ==
    [tds |-> 1, img |-> FALSE, a |-> FALSE, rel |-> {}, text |-> "", href |-> ""]

\* pages with folders, in several orders of their entries
InnerPages ==
    { <<TitleRow, ParentRow>>,
      <<TitleRow, ParentRow, FileRow("f1"), FolderRow("d1")>>,
      <<TitleRow, ParentRow, FolderRow("d1"), FileRow("f1")>>,
      <<TitleRow, RuleRow, ParentRow, FolderRow("d1"), FileRow("f1"),
        FolderRow("d2"), FileRow("f2")>> }

\* pages without folders
LeafPages ==
    { <<TitleRow, ParentRow>>,
      <<TitleRow, ParentRow, FileRow("f1")>>,
      <<TitleRow, ParentRow, FileRow("f1"), FileRow("f2"), RuleRow>> }

\* a served tree: the listing of every folder at a depth is the same page
Trees ==
    { t \in [0..MaxDepth -> InnerPages \cup LeafPages] :
        /\ t[MaxDepth] \in LeafPages
        /\ \A d \in 0..(MaxDepth - 1) : t[d] \in InnerPages }

\* the listing page of a remote folder, a path below /files/
Page(tree, path) == tree[Len(path)]

Hrefs(rows) == [k \in DOMAIN rows |-> rows[k].href]

\* download_files.py, lines 93-100
IsFileRow(row) ==
    /\ row.tds > 0
    /\ row.img
    /\ row.a
    /\ "bookmark" \in row.rel

\* download_files.py, lines 112-122
IsFolderRow(row) ==
    /\ row.tds > 0
    /\ row.img
    /\ row.a
    /\ ~("bookmark" \in row.rel)
    /\ row.text # "Parent Directory"

extract_file_names_from_url(page) == Hrefs(SelectSeq(page, IsFileRow))

extract_folder_names_from_url(page) == Hrefs(SelectSeq(page, IsFolderRow))

\* the local directories of an earlier mirror, down to a depth
RECURSIVE LocalDirs(_, _)
LocalDirs(tree, depth) ==
    IF depth = 0 THEN {<<>>}
    ELSE LET above == LocalDirs(tree, depth - 1)
         IN  above \cup
             { Append(d, n) : d \in {x \in above : Len(x) = depth - 1},
                              n \in IF depth = 1 THEN {AllUrls[k].host : k \in DOMAIN AllUrls}
                                    ELSE Range(extract_folder_names_from_url(tree[depth - 2])) }

CrawlUrlLists == {SubSeq(AllUrls, 1, 1), SubSeq(AllUrls, 1, 2)}

Frame(fn, url, dir, phase, folders) ==
    [fn |-> fn, url |-> url, dir |-> dir, phase |-> phase, i |-> 1,
     file_names |-> <<>>, folder_names |-> folders, missed_files |-> <<>>]

CrawlEvent(op, host, path, name, resp) ==
    [op |-> op, host |-> host, path |-> path, name |-> name, resp |-> resp]

Called == [exc |-> "none", status |-> 0]

CrawlInit ==
    /\ MainIdle
    /\ CatIdle
    /\ \E urls \in CrawlUrlLists, tree \in Trees, depth \in 0..(MaxDepth + 2) :
         crawl = [pc |-> "main",
                  erddap_urls |-> urls,
                  uIdx |-> 1,
                  tree |-> tree,
                  dirs |-> IF depth = 0 THEN {} ELSE LocalDirs(tree, depth - 1),
                  files |-> {},
                  stack |-> <<>>,
                  trace |-> <<>>,
                  uncaught |-> NoException]

Top == crawl.stack[Len(crawl.stack)]
CrawlHost == Netloc(crawl.erddap_urls[crawl.uIdx])

Crashed(c, e, event) ==
    [c EXCEPT !.pc = "crashed", !.uncaught = e, !.trace = Append(c.trace, event)]

ReplaceTop(stack, frame) == [stack EXCEPT ![Len(stack)] = frame]

\* main(), lines 47-54: the endpoint's directory and the top listing
CrawlBeginUrl ==
    /\ crawl.pc = "main"
    /\ crawl.uIdx <= Len(crawl.erddap_urls)
    /\ \E resp \in Responses :
         LET host_dir == <<CrawlHost>>
             made == [crawl EXCEPT !.dirs = makedirs(crawl.dirs, host_dir)]
             event == CrawlEvent("folders", CrawlHost, <<>>, "", resp)
         IN  crawl' =
               IF Succeeds(resp)
               THEN [made EXCEPT
                       !.pc = "run",
                       !.trace = Append(crawl.trace, event),
                       !.stack = <<Frame("main", <<>>, host_dir, "folders",
                                     extract_folder_names_from_url(Page(crawl.tree, <<>>)))>>]
               ELSE Crashed(made, Raised(resp), event)
    /\ UNCHANGED <<mainVars, cat>>

\* main(): the loop over the endpoints is over
CrawlUrlsDone ==
    /\ crawl.pc = "main"
    /\ crawl.uIdx > Len(crawl.erddap_urls)
    /\ crawl' = [crawl EXCEPT !.pc = "done"]
    /\ UNCHANGED <<mainVars, cat>>

\* download_files, line 70
CrawlListFiles ==
    /\ crawl.pc = "run"
    /\ Top.phase = "list_files"
    /\ \E resp \in Responses :
         LET event == CrawlEvent("files", CrawlHost, Top.url, "", resp)
         IN  crawl' =
               IF Succeeds(resp)
               THEN [crawl EXCEPT
                       !.trace = Append(crawl.trace, event),
                       !.stack = ReplaceTop(crawl.stack,
                           [Top EXCEPT !.phase = "list_folders",
                                       !.file_names = extract_file_names_from_url(
                                                          Page(crawl.tree, Top.url))])]
               ELSE Crashed(crawl, Raised(resp), event)
    /\ UNCHANGED <<mainVars, cat>>

\* download_files, line 71
CrawlListFolders ==
    /\ crawl.pc = "run"
    /\ Top.phase = "list_folders"
    /\ \E resp \in Responses :
         LET event == CrawlEvent("folders", CrawlHost, Top.url, "", resp)
         IN  crawl' =
               IF Succeeds(resp)
               THEN [crawl EXCEPT
                       !.trace = Append(crawl.trace, event),
                       !.stack = ReplaceTop(crawl.stack,
                           [Top EXCEPT !.phase = "files",
                                       !.folder_names = extract_folder_names_from_url(
                                                            Page(crawl.tree, Top.url))])]
               ELSE Crashed(crawl, Raised(resp), event)
    /\ UNCHANGED <<mainVars, cat>>

\* download_files, lines 73-76, and download, lines 156-159: one file
CrawlFile ==
    /\ crawl.pc = "run"
    /\ Top.phase = "files"
    /\ Top.i <= Len(Top.file_names)
    /\ \E resp \in Responses :
         LET file_name == Top.file_names[Top.i]
             file_path == FilePath(Top.dir, <<file_name>>)
             event == CrawlEvent("file", CrawlHost, Top.url, file_name, resp)
         IN  crawl' =
               IF ~Succeeds(resp) THEN Crashed(crawl, Raised(resp), event)
               ELSE IF Top.dir \notin crawl.dirs
               THEN Crashed(crawl, FileNotFoundError, event)
               ELSE [crawl EXCEPT
                       !.trace = Append(crawl.trace, event),
                       !.files = crawl.files \cup {file_path},
                       !.stack = ReplaceTop(crawl.stack, [Top EXCEPT !.i = Top.i + 1])]
    /\ UNCHANGED <<mainVars, cat>>

\* download_files: the loop over file_names is over
CrawlFilesDone ==
    /\ crawl.pc = "run"
    /\ Top.phase = "files"
    /\ Top.i > Len(Top.file_names)
    /\ crawl' = [crawl EXCEPT
                   !.stack = ReplaceTop(crawl.stack,
                                [Top EXCEPT !.phase = "folders", !.i = 1])]
    /\ UNCHANGED <<mainVars, cat>>

\* download_files, lines 77-82, and main(), lines 55-59: one folder.  The
\* directory made is download_dir, not the folder's own
CrawlFolder ==
    /\ crawl.pc = "run"
    /\ Top.phase = "folders"
    /\ Top.i <= Len(Top.folder_names)
    /\ LET folder_name == Top.folder_names[Top.i]
           new_url == Append(Top.url, folder_name)
           new_download_location == Append(Top.dir, folder_name)
       IN  crawl' = [crawl EXCEPT
                       !.dirs = makedirs(crawl.dirs, Top.dir),
                       !.trace = Append(crawl.trace,
                           CrawlEvent("crawl", CrawlHost, new_url, "", Called)),
                       !.stack = Append(
                           ReplaceTop(crawl.stack, [Top EXCEPT !.i = Top.i + 1]),
                           Frame("download_files", new_url, new_download_location,
                                 "list_files", <<>>))]
    /\ UNCHANGED <<mainVars, cat>>

\* download_files, line 83: the result is dropped by the caller; at the
\* end of main()'s loop body the next endpoint is taken up
CrawlReturn ==
    /\ crawl.pc = "run"
    /\ Top.phase = "folders"
    /\ Top.i > Len(Top.folder_names)
    /\ crawl' = IF Top.fn = "main"
                THEN [crawl EXCEPT !.stack = <<>>, !.pc = "main",
                                   !.uIdx = crawl.uIdx + 1]
                ELSE [crawl EXCEPT !.stack = SubSeq(crawl.stack, 1, Len(crawl.stack) - 1)]
    /\ UNCHANGED <<mainVars, cat>>

CrawlNext ==
    \/ CrawlBeginUrl
    \/ CrawlUrlsDone
    \/ CrawlListFiles
    \/ CrawlListFolders
    \/ CrawlFile
    \/ CrawlFilesDone
    \/ CrawlFolder
    \/ CrawlReturn

CrawlSpec == CrawlInit /\ [][CrawlNext]_vars

(***************************************************************************)
(* What the claims speak of.                                               *)
(***************************************************************************)
Count(seq, x) == Cardinality({i \in DOMAIN seq : seq[i] = x})

Failed(entry) == ~Succeeds(entry.resp)

\* the Failed outcome of a request: what the code appends for it
Outcome(entry) == <<entry.url, entry.ds, entry.target, Raised(entry.resp)>>

\* the missed downloads collected so far: main()'s list and the list of the
\* function that is running
Collected ==
    error_report \o (IF pc = "formats" THEN missed_formats
                     ELSE IF pc = "files" THEN missed_files
                     ELSE <<>>)

(***************************************************************************)
(* C1.  As claimed: when the ncCF request of a dataset fails with an HTTP  *)
(* client error and the nc request of the same dataset succeeds, no        *)
(* Failed outcome is recorded for ncCF.                                    *)
(***************************************************************************)
ClientError(entry, f) ==
    /\ entry.op = "format"
    /\ entry.target = f
    /\ entry.resp.exc = "none"
    /\ entry.resp.status >= 400 /\ entry.resp.status < 500

NarrowSucceeds(entry) ==
    \E j \in DOMAIN log :
        /\ log[j].op = "format" /\ log[j].target = "nc"
        /\ log[j].url = entry.url /\ log[j].ds = entry.ds
        /\ Succeeds(log[j].resp)

AllTargetsOnDisk ==
    \A f \in Range(args.formats) :
        \E p \in DOMAIN files :
            /\ p.dir = <<Netloc(erddap_url), dataset_id>>
            /\ p.name = <<dataset_id, ".", f>>

SkipCase ==
    /\ pc = "dataset"
    /\ dsIdx <= Len(dataset_ids)
    /\ args.skip_existing
    /\ AllTargetsOnDisk

C2_SkipExisting ==
    [][SkipCase => /\ log' = log
                   /\ files' = files
                   /\ error_report' = error_report
                   /\ pc' = "dataset"
                   /\ dsIdx' = dsIdx + 1]_vars

\* the first dataset of the catalog was skipped: its stale file is still
\* there and the catalog request is the only one made
C2_Witness ==
    /\ pc = "dataset"
    /\ dsIdx = 2
    /\ args.skip_existing
    /\ args.table_datasets
    /\ dataset_ids[1][1] = "A"
    /\ urlIdx = 1
    /\ Len(log) = 1
    /\ \A f \in Range(args.formats) :
         LET p == FilePath(<<"h1", "A">>, <<"A", ".", f>>)
         IN  p \in DOMAIN files /\ files[p] = Stale

(***************************************************************************)
(* C3.  Format failure isolation: a pass of the format loop whose request  *)
(* fails appends exactly one entry, carrying the endpoint, the dataset id, *)
(* the format and the error, and goes on to the next format; the loop is   *)
(* left only after the last format, and its entries are then handed to     *)
(* main()'s list.                                                          *)
(***************************************************************************)
InFormatLoop == pc = "formats" /\ fmtIdx <= Len(args.formats)

FormatRequestFails ==
    /\ InFormatLoop
    /\ Len(log') = Len(log) + 1
    /\ Failed(log'[Len(log')])

C3_FormatFailureIsolated ==
    [][/\ FormatRequestFails
          => /\ missed_formats' = Append(missed_formats,
                    <<erddap_url, dataset_id, args.formats[fmtIdx],
                      Raised(log'[Len(log')].resp)>>)
             /\ log'[Len(log')].target = args.formats[fmtIdx]
             /\ pc' = "formats"
             /\ fmtIdx' = fmtIdx + 1
       /\ (InFormatLoop /\ ~FormatRequestFails)
          => /\ missed_formats' = missed_formats
             /\ pc' = "formats"
             /\ fmtIdx' = fmtIdx + 1
       /\ (pc = "formats" /\ pc' # "formats")
          => /\ fmtIdx > Len(args.formats)
             /\ error_report' = error_report \o missed_formats]_vars

\* the first format failed, the second was still requested
C3_Witness ==
    /\ Len(log) >= 3
    /\ \E i \in DOMAIN log :
         /\ i < Len(log)
         /\ log[i].op = "format" /\ Failed(log[i])
         /\ log[i].target = args.formats[1]
         /\ log[i + 1].op = "format"
         /\ log[i + 1].ds = log[i].ds
         /\ Len(args.formats) = 2
         /\ log[i + 1].target = args.formats[2]
         /\ log[i].resp.exc = "IncompleteRead"

(***************************************************************************)
(* C4.  As claimed: a failed sidecar request is recorded as a missed       *)
(* download of its dataset and does not end the run.                       *)
(***************************************************************************)
C4_SidecarFailureRecorded ==
    \A i \in DOMAIN log :
        (log[i].op = "sidecar" /\ Failed(log[i]))
            => /\ pc # "crashed"
               /\ \E k \in DOMAIN Collected :
                    /\ Collected[k][1] = log[i].url
                    /\ Collected[k][2] = log[i].ds

(***************************************************************************)
(* C5.  As claimed: a run whose catalog requests succeed and whose report  *)
(* file can be written ends with the report written, and the report then   *)
(* holds a row for every request that failed.                              *)
(***************************************************************************)
CatalogsSucceeded == \A i \in DOMAIN log : log[i].op = "catalog" => Succeeds(log[i].resp)

ReportWritable == uncaught # FileNotFoundError

C5_EveryFailurePersisted ==
    (pc \in {"done", "crashed"} /\ CatalogsSucceeded /\ ReportWritable)
        => /\ pc = "done"
           /\ \A i \in DOMAIN log :
                Failed(log[i])
                    => \E k \in DOMAIN reportFile.rows :
                         /\ reportFile.rows[k].kind = "row"
                         /\ reportFile.rows[k].time = start_time
                         /\ reportFile.rows[k].erddap_url = log[i].url
                         /\ reportFile.rows[k].datasetID = log[i].ds
                         /\ reportFile.rows[k].missed = log[i].target

(***************************************************************************)
(* C6.  Report contents: after the report step the file starts with its    *)
(* only header row, the rows an earlier run left follow unchanged, and     *)
(* after them comes one row per missed download of this run, in the order  *)
(* of collection; their number is the number of requests for a format, a   *)
(* listing or a file that failed, so nothing saved or skipped has a row.   *)
(***************************************************************************)
Headers(rows) == {k \in DOMAIN rows : rows[k].kind = "header"}

RowsOfRun(rows, time) ==
    {k \in DOMAIN rows : rows[k].kind = "row" /\ rows[k].time = time}

C6_ReportContents ==
    pc = "done"
        => LET rows == reportFile.rows
               n == Len(rows)
               m == Len(error_report)
           IN  /\ reportFile.exists
               /\ Headers(rows) = {1}
               /\ RowsOfRun(rows, start_time) = (n - m + 1)..n
               /\ \A k \in 1..m :
                    LET r == rows[n - m + k]
                    IN  <<r.erddap_url, r.datasetID, r.missed, r.error>>
                            = error_report[k]
               /\ \A k \in 2..(n - m) : rows[k] = EarlierReport.rows[k]
               /\ n - m \in {1, Len(EarlierReport.rows)}
               /\ m = Cardinality({i \in DOMAIN log :
                        log[i].op \in {"format", "listing", "file"} /\ Failed(log[i])})

\* two missed downloads were appended to the file of an earlier run
C6_Witness ==
    /\ pc = "done"
    /\ Len(error_report) = 2
    /\ error_report[1] # error_report[2]
    /\ Len(reportFile.rows) = Len(EarlierReport.rows) + 2

(***************************************************************************)
(* C7.  As claimed: a listing request that fails is recorded as one        *)
(* failure of that listing and does not end the crawl.                     *)
(***************************************************************************)
\* a listing request of download_files (lines 70-71) that failed
ListingFailed(event) ==
    /\ event.op \in {"files", "folders"}
    /\ event.path # <<>>
    /\ Failed(event)

\* the failures recorded by the crawl of a folder: its missed_files
RecordedFor(event) ==
    {k \in DOMAIN crawl.stack :
        /\ crawl.stack[k].url = event.path
        /\ Len(crawl.stack[k].missed_files) = 1}

C7_ListingFailureIsolated ==
    \A i \in DOMAIN crawl.trace :
        ListingFailed(crawl.trace[i])
            => /\ crawl.pc # "crashed"
               /\ Cardinality(RecordedFor(crawl.trace[i])) = 1

(***************************************************************************)
(* C8.  As claimed: when the crawl has ended, every listing page that was  *)
(* crawled has had one download attempt per file entry and one recursive   *)
(* crawl per subfolder entry.                                              *)
(***************************************************************************)
FileEntries(page) == {k \in DOMAIN page : "bookmark" \in page[k].rel}

FolderEntries(page) ==
    {k \in DOMAIN page :
        /\ page[k].a
        /\ "bookmark" \notin page[k].rel
        /\ page[k].text # "Parent Directory"}

\* the folders whose two listing requests succeeded
CrawledPages ==
    { <<crawl.trace[i].host, crawl.trace[i].path>> : i \in
        { i \in DOMAIN crawl.trace :
            /\ crawl.trace[i].op = "folders"
            /\ Succeeds(crawl.trace[i].resp)
            /\ crawl.trace[i].path # <<>> } }

Attempts(host, path) ==
    Cardinality({i \in DOMAIN crawl.trace :
        /\ crawl.trace[i].op = "file"
        /\ crawl.trace[i].host = host
        /\ crawl.trace[i].path = path})

Recursions(host, path) ==
    Cardinality({i \in DOMAIN crawl.trace :
        /\ crawl.trace[i].op = "crawl"
        /\ crawl.trace[i].host = host
        /\ Len(crawl.trace[i].path) = Len(path) + 1
        /\ SubSeq(crawl.trace[i].path, 1, Len(path)) = path})

C8_CrawlComplete ==
    crawl.pc \in {"done", "crashed"}
        => \A hp \in CrawledPages :
             LET page == Page(crawl.tree, hp[2])
             IN  /\ Attempts(hp[1], hp[2]) = Cardinality(FileEntries(page))
                 /\ Recursions(hp[1], hp[2]) = Cardinality(FolderEntries(page))

(***************************************************************************)
(* C9.  Explicit ids with more than one endpoint: the run is rejected      *)
(* before any request, any directory, any file and any report row.         *)
(***************************************************************************)
C9_RejectedBeforeWork ==
    (args.datasetIDs # <<>> /\ Len(args.erddap_urls) > 1)
        => /\ pc \in {"start", "rejected"}
           /\ log = <<>>
           /\ error_report = <<>>
           /\ \E e \in EarlierStates :
                files = e.files /\ dirs = e.dirs /\ reportFile = e.reportFile

C9_Witness ==
    /\ pc = "rejected"
    /\ args.datasetIDs # <<>>
    /\ Len(args.erddap_urls) > 1
    /\ args.table_datasets


(***************************************************************************)
(* C10.  Catalog filtering: the resolver returns, in catalog order, the    *)
(* rows whose id is not allDatasets, whose structure kind is not empty     *)
(* and, when ids are given, whose id is among them.                        *)
(***************************************************************************)
Wanted(row, ids) ==
    /\ row.datasetID # "allDatasets"
    /\ row.dataStructure # ""
    /\ ids # <<>> => \E j \in DOMAIN ids : ids[j] = row.datasetID

\* the n-th smallest element of a set of numbers
Nth(S, n) == CHOOSE k \in S : Cardinality({j \in S : j <= k}) = n

C10_CatalogFiltering ==
    cat.pc = "returned"
        => LET kept == {k \in DOMAIN cat.catalog :
                            Wanted(cat.catalog[k], cat.specified_dataset_ids)}
           IN  /\ Len(cat.result) = Cardinality(kept)
               /\ \A n \in 1..Len(cat.result) :
                    LET row == cat.catalog[Nth(kept, n)]
                    IN  cat.result[n] = <<row.datasetID, row.dataStructure,
                                          row.files, row.iso19115>>

\* ids B,A against a catalog listing allDatasets, A, B: A comes first
C10_Witness ==
    /\ cat.pc = "returned"
    /\ cat.specified_dataset_ids = <<"B", "A">>
    /\ Len(cat.catalog) = 3
    /\ cat.catalog[1].datasetID = "allDatasets"
    /\ cat.catalog[1].dataStructure = "table"
    /\ cat.csv.header # StdHeader
    /\ Len(cat.result) = 2
    /\ cat.result[1][1] = "A"
    /\ cat.result[2][1] = "B"

(***************************************************************************)
(* C11.  As claimed: during the crawl of the /files/ tree every file that  *)
(* is written lies in a local directory that exists, and no write of a     *)
(* file of a subfolder finds the subfolder's local directory missing: the  *)
(* directory was created before the recursive crawl wrote into it.         *)
(***************************************************************************)
\* open(file_path, "wb") found no directory to write into
WriteFoundNoDirectory ==
    /\ crawl.pc = "crashed"
    /\ crawl.uncaught = FileNotFoundError

C11_DirectoryBeforeFiles ==
    /\ \A f \in crawl.files : f.dir \in crawl.dirs
    /\ ~WriteFoundNoDirectory

====
